---- MODULE Spec2Model ----
(***************************************************************************)
(* State-machine model of the NTP server (src/ntp_server.py) and the NTP   *)
(* client (src/ntp_client.py), joined by an unreliable datagram network.   *)
(*                                                                         *)
(* Numbers.  TLC's integers are 32 bits wide, so a 32-bit wire word cannot *)
(* be held at full width.  Every 32-bit word of the packet is modelled as  *)
(* a WordBits-bit word: NTP_MAX_VALUE (2**32 in the source) is 2^WordBits  *)
(* and the epoch offset 2208988800 (0.514 * 2**32) is scaled with it to    *)
(* half the word range.  The one-byte fields keep their 8 bits.            *)
(*                                                                         *)
(* Floats.  A Python float holding seconds is modelled as a fixed-point    *)
(* integer counting units of 1/Scale second, Scale = NTP_MAX_VALUE, so     *)
(* that "t % 1", "int(t)" and "frac / 2**32" are exact.  The clock moves   *)
(* in ticks of 1/TicksPerSec second; all values the model feeds to the     *)
(* float arithmetic are multiples of a power of two and are exact in a     *)
(* double as well.                                                         *)
(***************************************************************************)
EXTENDS Integers, Sequences, FiniteSets, TLC

(***************************************************************************)
(* Bounds of the model.                                                    *)
(***************************************************************************)
\* width of a wire word, standing for the 32 bits of struct format "I"
WordBits == 5
\* the clock ticks 2^FracBits times a second
FracBits == 1
\* seconds of clock covered from each starting instant
WindowSecs == 6

(***************************************************************************)
(* Program constants.                                                      *)
(***************************************************************************)
NTP_PACKET_SIZE == 48
NTP_MAX_VALUE == 2 ^ WordBits
NTP_DELTA == NTP_MAX_VALUE \div 2
NTP_UNIX_OFFSET == NTP_MAX_VALUE \div 2
TIMEOUT == 5

Scale == NTP_MAX_VALUE
TicksPerSec == 2 ^ FracBits
\* Unix second at which seconds + NTP_DELTA stops fitting a wire word
Rollover == NTP_MAX_VALUE - NTP_DELTA

(***************************************************************************)
(* Float and struct primitives.                                            *)
(***************************************************************************)
\* int(x) of a float x: truncation toward zero
PyInt(x) == IF x >= 0 THEN x \div Scale ELSE -((-x) \div Scale)

\* a Python int as a float
Float(n) == n * Scale

\* int((x % 1) * 2**32)
FracWord(x) == ((x % Scale) * NTP_MAX_VALUE) \div Scale

\* struct format "!B B B b 11I": which values each of the 15 slots takes
FitsSlot(i, v) ==
    IF i \in 1..3 THEN v \in 0..255
    ELSE IF i = 4 THEN v \in -128..127
    ELSE v \in 0..(NTP_MAX_VALUE - 1)

\* unpacked[i] of Python (0-based) in a TLA+ tuple (1-based)
At(unpacked, i) == unpacked[i + 1]

\* the exception struct.pack and struct.unpack raise
StructError == [error |-> "struct.error"]

\* struct.pack(NTP_PACKET_FORMAT, ...): 48 bytes, or struct.error when a
\* value does not fit its slot
Pack(fields) ==
    IF \A i \in 1..15 : FitsSlot(i, fields[i])
    THEN [len |-> NTP_PACKET_SIZE, fields |-> fields]
    ELSE StructError

\* struct.unpack(NTP_PACKET_FORMAT, data[0:48]) raises struct.error unless
\* the slice holds 48 bytes
CanUnpackWhole(data) == data.len = NTP_PACKET_SIZE

CanUnpack(data) == data.len >= NTP_PACKET_SIZE

\* struct.unpack(NTP_PACKET_FORMAT, data[0:48]): the 15 fields of the first
\* 48 bytes; what follows them is not looked at
Unpack(data) == data.fields

(***************************************************************************)
(* src/ntp_server.py: the pure part.                                       *)
(***************************************************************************)
\* int(timestamp + NTP_DELTA)
system_to_ntp_time(timestamp) == PyInt(timestamp + Float(NTP_DELTA))

\* (0 << 6) | (4 << 3) | 4
SERVER_LI_VN_MODE == 0 * 64 + 4 * 8 + 4

\* int.from_bytes(b'GPS\x00', byteorder='big'), cut to the top WordBits bits
REF_ID == 1196446464 \div (2 ^ (32 - WordBits))

create_ntp_response_echo_version(data, time1, time2) ==
    LET unpacked == Unpack(data)
        ntp_time1 == system_to_ntp_time(time1)
        ntp_time2 == system_to_ntp_time(time2)
    IN  IF ~CanUnpack(data) THEN StructError
        ELSE Pack(<< 0 * 64 + ((At(unpacked, 0) \div 8) % 8) * 8 + 4,
                     2, 6, -20, 0, 0, REF_ID,
                     ntp_time1, FracWord(time1),
                     At(unpacked, 10), At(unpacked, 11),
                     ntp_time1, FracWord(time1),
                     ntp_time2, FracWord(time2) >>)

create_ntp_response_late_receive(data, time1, time2) ==
    LET unpacked == Unpack(data)
        ntp_time1 == system_to_ntp_time(time1)
        ntp_time2 == system_to_ntp_time(time2)
    IN  IF ~CanUnpack(data) THEN StructError
        ELSE Pack(<< SERVER_LI_VN_MODE,
                     2, 6, -20, 0, 0, REF_ID,
                     ntp_time1, FracWord(time1),
                     At(unpacked, 10), At(unpacked, 11),
                     ntp_time2, FracWord(time2),
                     ntp_time1, FracWord(time1) >>)

\* create_ntp_response(data), with the values the two calls of time.time()
\* return: the response bytes, or the struct.error that unpack or pack raises
create_ntp_response(data, time1, time2) ==
    LET unpacked == Unpack(data)
        ntp_time1 == system_to_ntp_time(time1)
        ntp_time2 == system_to_ntp_time(time2)
    IN  IF ~CanUnpack(data) THEN StructError
        ELSE Pack(<< SERVER_LI_VN_MODE,      \* li_vn_mode
                     2,                      \* stratum
                     6,                      \* poll
                     -20,                    \* precision
                     0,                      \* root_delay
                     0,                      \* root_dispersion
                     REF_ID,                 \* ref_id
                     ntp_time1,              \* ref_timestamp_int
                     FracWord(time1),        \* ref_timestamp_frac
                     At(unpacked, 10),       \* origin_timestamp_int
                     At(unpacked, 11),       \* origin_timestamp_frac
                     ntp_time1,              \* recv_timestamp_int
                     FracWord(time1),        \* recv_timestamp_frac
                     ntp_time2,              \* transmit_timestamp_int
                     FracWord(time2) >>)     \* transmit_timestamp_frac

(***************************************************************************)
(* src/ntp_client.py: the pure part.                                       *)
(***************************************************************************)
\* int(timestamp + NTP_UNIX_OFFSET)
unix_to_ntp_time_seconds(timestamp) == PyInt(timestamp + Float(NTP_UNIX_OFFSET))

\* int(timestamp - NTP_UNIX_OFFSET)
ntp_to_unix_time_seconds(timestamp) == PyInt(timestamp - Float(NTP_UNIX_OFFSET))

\* (0 << 6) | (4 << 3) | 3
CLIENT_LI_VN_MODE == 0 * 64 + 4 * 8 + 3

\* the request of get_ntp_time, built when time.time() returns `time`
ClientRequest(time) ==
    Pack(<< CLIENT_LI_VN_MODE, 0, 0, 0, 0, 0, 0, 0, 0, 0, 0, 0, 0,
            PyInt(Float(unix_to_ntp_time_seconds(time))), 0 >>)

\* transmit_timestamp_int + (transmit_timestamp_frac / NTP_MAX_VALUE)
ResponseNtpTime(unpacked) ==
    Float(At(unpacked, 13)) + (At(unpacked, 14) * Scale) \div NTP_MAX_VALUE

(***************************************************************************)
(* State.  The repository holds two programs, each run as a process of its *)
(* own (ntp_server.py, ntp_client.py); a run of the model is a run of one  *)
(* of them.  The other end of the network is the environment: it may send  *)
(* whatever the other program would send, and more.                        *)
(* Two further kinds of run call functions the programs export without     *)
(* running either: those of server_config.py, and the client's two         *)
(* conversions.                                                            *)
(***************************************************************************)
VARIABLES
    program,      \* what this run executes: "ntp_server", "ntp_client", or
                  \* calls of the functions of "server_config" or of the
                  \* client's "conversions"
    config,       \* server_config's SEND_FIXED_TIME, SEND_DELTA_PLUS_TIME,
                  \* SEND_DELTA_MINUS_TIME: each <<>> (None) or <<value>>
    call,         \* the last function call: <<name, what time.time() gave,
                  \* the number returned or shown, the words returned>>
    now,          \* the client host's clock, in ticks since the Unix epoch
    skew,         \* server clock minus client clock, in ticks
    spc,          \* run_ntp_server: "bind", "recv", "handle", "stopped"
    ssock,        \* server_socket: "open" or "closed"
    sexit,        \* how the server process ended: "running", "exit0", "exit1"
    sprinted,     \* the last message run_ntp_server printed
    cur,          \* (data, address) of the last recvfrom, <<>> before the first
    out,          \* (response, address) given to sendto for cur, <<>> if none
    nsent,        \* number of sendto calls that succeeded for cur
    stamps,       \* the two values time.time() returned while cur was
                  \* answered, <<>> before that
    fault,        \* the exception the handling of cur raised, "none" if none
    discarded,    \* history: a datagram shorter than 48 bytes was discarded
    cpc,          \* get_ntp_time: "start", "recv", "done"
    csock,        \* client socket: "open" or "closed"
    t0,           \* tick at which the client built and sent its request
    request,      \* the request given to client.sendto, <<>> if none
    csends,       \* number of client.sendto calls made
    creads,       \* number of datagrams client.recvfrom returned
    response,     \* (response, address) of the client's recvfrom, <<>> if none
    system_time,  \* get_ntp_time's local of that name (seconds)
    local_time,   \* get_ntp_time's local of that name (float)
    offset,       \* get_ntp_time's local of that name (float)
    outcome,      \* how get_ntp_time ended
    retval        \* what get_ntp_time returned

svars == <<spc, ssock, sexit, sprinted, cur, out, nsent, stamps, fault, discarded>>
cvars == <<cpc, csock, t0, request, csends, creads, response, system_time,
           local_time, offset, outcome, retval>>
vars == <<program, config, call, now, skew, svars, cvars>>

\* Python's None
None == <<>>

CLIENT_ADDR == "client"
OTHER_ADDR == "other"
SERVER_ADDR == "server"

(***************************************************************************)
(* Clocks.                                                                 *)
(***************************************************************************)
\* one tick as a float
TickLen == Scale \div TicksPerSec

\* the instants (Unix seconds) a run may start at: early in the era, and
\* shortly before seconds + NTP_DELTA leaves the word range
StartTimes == {1, Rollover - 5}

\* by how many seconds the server's clock may lead the client's
SkewSecs == {0, 2}

\* time.time() on the client host and on the server host at tick `tick`
ClientTimeAt(tick) == tick * TickLen
ServerTimeAt(tick) == (tick + skew) * TickLen
ClientTime == ClientTimeAt(now)
ServerTime == ServerTimeAt(now)

\* the timeout of client.settimeout(5), in ticks
TimeoutTicks == TIMEOUT * TicksPerSec

\* the clock may advance: inside the window of the run while nothing waits
\* for it, and up to the instant at which a blocked client recvfrom times out
CanTick ==
    IF cpc = "recv"
    THEN now < t0 + TimeoutTicks
    ELSE \E s \in StartTimes :
            s * TicksPerSec <= now /\ now < (s + WindowSecs) * TicksPerSec

Tick ==
    /\ CanTick
    /\ now' = now + 1
    /\ UNCHANGED <<program, config, call, skew, svars, cvars>>

(***************************************************************************)
(* Datagrams other hosts put on the network.                               *)
(***************************************************************************)
Datagram(len, fields) == [len |-> len, fields |-> fields]

HalfWord == NTP_MAX_VALUE \div 2

\* a datagram shorter than a packet: only its length matters to either side
ShortDatagrams == {Datagram(10, <<>>), Datagram(47, <<>>)}

\* requests of other hosts: any mode, any timestamps, trailing bytes
OtherRequests ==
    { Datagram(48, <<35, 0, 0, 0, 0, 0, 0, 0, 0, 0, 0, 0, 0, 5, HalfWord>>),
      Datagram(60, <<223, 3, 4, -6, 1, 2, 3, 4, 6, 7, 9, 11, 13, 5, 0>>),
      Datagram(48, <<35, 0, 0, 0, 0, 0, 0, 0, 0, 0, 9, 0, 0,
                     NTP_MAX_VALUE - 5, 0>>) }

\* the request a host running get_ntp_time sends at this instant
ClientRequests ==
    IF ClientRequest(ClientTime) = StructError THEN {}
    ELSE {ClientRequest(ClientTime)}

\* what may arrive at the server's socket
ServerArrivals ==
    { <<d, OTHER_ADDR>> : d \in ShortDatagrams \cup OtherRequests }
        \cup { <<d, CLIENT_ADDR>> : d \in ClientRequests }

(***************************************************************************)
(* run_ntp_server.                                                         *)
(***************************************************************************)
\* the finally clause: server_socket.close()
ServerLeave(status, message) ==
    /\ spc' = "stopped"
    /\ ssock' = "closed"
    /\ sexit' = status
    /\ sprinted' = message
    /\ UNCHANGED <<cur, out, nsent, stamps, fault, discarded, program, config, call, now, skew, cvars>>

\* server_socket.bind succeeds
ServerBindOk ==
    /\ program = "ntp_server"
    /\ spc = "bind"
    /\ spc' = "recv"
    /\ sprinted' = "Waiting for NTP requests"
    /\ UNCHANGED <<ssock, sexit, cur, out, nsent, stamps, fault, discarded, program, config, call, now, skew, cvars>>

\* server_socket.bind raises PermissionError: sys.exit(1)
ServerBindDenied ==
    /\ program = "ntp_server"
    /\ spc = "bind"
    /\ ServerLeave("exit1", "Error: Permission denied")

\* server_socket.bind raises another exception: sys.exit(1)
ServerBindError ==
    /\ program = "ntp_server"
    /\ spc = "bind"
    /\ ServerLeave("exit1", "Error starting server")

\* KeyboardInterrupt, at any point inside the outer try
ServerInterrupt ==
    /\ program = "ntp_server"
    /\ spc \in {"bind", "recv", "handle"}
    /\ ServerLeave("exit0", "Shutting down NTP server")

\* server_socket.recvfrom(1024) returns a datagram
ServerRecv ==
    /\ program = "ntp_server"
    /\ spc = "recv"
    /\ \E a \in ServerArrivals : cur' = a
    /\ spc' = "handle"
    /\ out' = None
    /\ nsent' = 0
    /\ stamps' = None
    /\ fault' = "none"
    /\ sprinted' = "received"
    /\ UNCHANGED <<ssock, sexit, discarded, program, config, call, now, skew, cvars>>

\* server_socket.recvfrom(1024) raises: except Exception, continue
ServerRecvFail ==
    /\ program = "ntp_server"
    /\ spc = "recv"
    /\ sprinted' = "Error handling request: recvfrom"
    /\ UNCHANGED <<spc, ssock, sexit, cur, out, nsent, stamps, fault, discarded, program, config, call, now, skew, cvars>>

\* ServerDiscard as it would be if a short datagram were an exception that
\* reaches the outer handler
ServerDiscardLeavesLoop ==
    /\ program = "ntp_server"
    /\ spc = "handle"
    /\ ~(cur[1].len >= 48)
    /\ spc' = "stopped"
    /\ ssock' = "closed"
    /\ sexit' = "exit1"
    /\ sprinted' = "Error starting server"
    /\ discarded' = TRUE
    /\ UNCHANGED <<cur, out, nsent, stamps, fault, program, config, call, now, skew, cvars>>

\* len(data) < 48: the else branch
ServerDiscard ==
    /\ program = "ntp_server"
    /\ spc = "handle"
    /\ ~(cur[1].len >= 48)
    /\ spc' = "recv"
    /\ sprinted' = "Received invalid packet"
    /\ discarded' = TRUE
    /\ UNCHANGED <<ssock, sexit, cur, out, nsent, stamps, fault, program, config, call, now, skew, cvars>>

\* the clock read twice by create_ntp_response: it may tick in between
TwoReads(adv) ==
    /\ adv = 1 => CanTick
    /\ now' = now + adv
    /\ stamps' = <<ServerTime, ServerTimeAt(now + adv)>>

\* len(data) >= 48: create_ntp_response returns, sendto succeeds
ServerRespond ==
    /\ program = "ntp_server"
    /\ spc = "handle"
    /\ cur[1].len >= 48
    /\ \E adv \in {0, 1} :
          LET resp == create_ntp_response(cur[1], ServerTime, ServerTimeAt(now + adv))
          IN  /\ TwoReads(adv)
              /\ resp # StructError
              /\ out' = <<resp, cur[2]>>
    /\ nsent' = nsent + 1
    /\ spc' = "recv"
    /\ sprinted' = "Sent NTP response"
    /\ UNCHANGED <<ssock, sexit, cur, fault, discarded, program, config, call, skew, cvars>>

\* ServerBuildFail as it would be without the inner try statement: the
\* exception reaches "except Exception" of the outer one, sys.exit(1)
ServerBuildFailFatal ==
    /\ program = "ntp_server"
    /\ spc = "handle"
    /\ cur[1].len >= 48
    /\ \E adv \in {0, 1} :
          /\ TwoReads(adv)
          /\ create_ntp_response(cur[1], ServerTime, ServerTimeAt(now + adv)) = StructError
    /\ spc' = "stopped"
    /\ ssock' = "closed"
    /\ sexit' = "exit1"
    /\ fault' = "struct.error"
    /\ sprinted' = "Error starting server"
    /\ UNCHANGED <<cur, out, nsent, discarded, program, config, call, skew, cvars>>

\* len(data) >= 48: create_ntp_response raises: except Exception, continue
ServerBuildFail ==
    /\ program = "ntp_server"
    /\ spc = "handle"
    /\ cur[1].len >= 48
    /\ \E adv \in {0, 1} :
          /\ TwoReads(adv)
          /\ create_ntp_response(cur[1], ServerTime, ServerTimeAt(now + adv)) = StructError
    /\ spc' = "recv"
    /\ fault' = "struct.error"
    /\ sprinted' = "Error handling request: struct.error"
    /\ UNCHANGED <<ssock, sexit, cur, out, nsent, discarded, program, config, call, skew, cvars>>

\* len(data) >= 48: create_ntp_response returns, sendto raises: except
\* Exception, continue
ServerSendFail ==
    /\ program = "ntp_server"
    /\ spc = "handle"
    /\ cur[1].len >= 48
    /\ \E adv \in {0, 1} :
          /\ TwoReads(adv)
          /\ create_ntp_response(cur[1], ServerTime, ServerTimeAt(now + adv)) # StructError
    /\ spc' = "recv"
    /\ fault' = "OSError"
    /\ sprinted' = "Error handling request: sendto"
    /\ UNCHANGED <<ssock, sexit, cur, out, nsent, discarded, program, config, call, skew, cvars>>

(***************************************************************************)
(* get_ntp_time.                                                           *)
(***************************************************************************)
\* responses of other hosts: the client's socket is not connected, so a
\* datagram of any sender, mode and content reaches its recvfrom
OtherResponses ==
    { Datagram(48, <<36, 2, 6, -20, 0, 0, 0, 0, 0, 0, 0, 0, 0, 5, 0>>),
      Datagram(48, <<36, 2, 6, -20, 0, 0, 0, 0, 0, 0, 0, 0, 0,
                     NTP_MAX_VALUE - 5, HalfWord>>),
      Datagram(60, <<35, 0, 0, 0, 0, 0, 0, 0, 0, 7, 9, 1, 0,
                     NTP_UNIX_OFFSET + 3, HalfWord>>) }

\* the responses a host running run_ntp_server has sent for the client's
\* request by now: built at any tick since the request left
ServerResponses ==
    IF request = None THEN {}
    ELSE { create_ntp_response(request, ServerTimeAt(r[1]), ServerTimeAt(r[1] + r[2])) :
             r \in {q \in (t0..now) \X {0, 1} : q[1] + q[2] <= now} }
           \ {StructError}

\* what may arrive at the client's socket
ClientArrivals ==
    { <<d, SERVER_ADDR>> : d \in ServerResponses }
        \cup { <<d, OTHER_ADDR>> : d \in ShortDatagrams \cup OtherResponses }

\* the finally clause: client.close()
ClientReturn(how, value) ==
    /\ cpc' = "done"
    /\ csock' = "closed"
    /\ outcome' = how
    /\ retval' = value

\* struct.pack of the request raises, before the try statement is entered:
\* the exception leaves get_ntp_time
ClientPackFail ==
    /\ program = "ntp_client"
    /\ cpc = "start"
    /\ ClientRequest(ClientTime) = StructError
    /\ cpc' = "done"
    /\ outcome' = "raised"
    /\ t0' = now
    /\ UNCHANGED <<csock, request, csends, creads, response, system_time,
                   local_time, offset, retval>>
    /\ UNCHANGED <<program, config, call, now, skew, svars>>

\* the request is built and client.sendto succeeds
ClientSend ==
    /\ program = "ntp_client"
    /\ cpc = "start"
    /\ ClientRequest(ClientTime) # StructError
    /\ t0' = now
    /\ request' = ClientRequest(ClientTime)
    /\ csends' = csends + 1
    /\ cpc' = "recv"
    /\ UNCHANGED <<csock, creads, response, system_time, local_time, offset, outcome, retval>>
    /\ UNCHANGED <<program, config, call, now, skew, svars>>

\* the request is built and client.sendto raises: except Exception
ClientSendFail ==
    /\ program = "ntp_client"
    /\ cpc = "start"
    /\ ClientRequest(ClientTime) # StructError
    /\ t0' = now
    /\ csends' = csends + 1
    /\ ClientReturn("error", None)
    /\ UNCHANGED <<request, creads, response, system_time, local_time, offset>>
    /\ UNCHANGED <<program, config, call, now, skew, svars>>

ClientRecvValidReadsReceive ==
    /\ program = "ntp_client"
    /\ cpc = "recv"
    /\ \E a \in ClientArrivals :
          /\ a[1].len >= NTP_PACKET_SIZE
          /\ response' = a
          /\ LET unpacked == Unpack(a[1])
                 ntp_time == Float(At(unpacked, 11))
                                + (At(unpacked, 12) * Scale) \div NTP_MAX_VALUE
             IN  /\ system_time' = ntp_to_unix_time_seconds(ntp_time)
                 /\ local_time' = ClientTime
                 /\ offset' = Float(system_time') - local_time'
                 /\ ClientReturn("result", <<system_time'>>)
    /\ creads' = creads + 1
    /\ UNCHANGED <<t0, request, csends>>
    /\ UNCHANGED <<program, config, call, now, skew, svars>>

\* client.recvfrom(1024) returns a datagram of at least NTP_PACKET_SIZE bytes
ClientRecvValid ==
    /\ program = "ntp_client"
    /\ cpc = "recv"
    /\ \E a \in ClientArrivals :
          /\ a[1].len >= NTP_PACKET_SIZE
          /\ response' = a
          /\ LET unpacked == Unpack(a[1])
                 ntp_time == ResponseNtpTime(unpacked)
             IN  /\ system_time' = ntp_to_unix_time_seconds(ntp_time)
                 /\ local_time' = ClientTime
                 /\ offset' = Float(system_time') - local_time'
                 /\ ClientReturn("result", <<system_time'>>)
    /\ creads' = creads + 1
    /\ UNCHANGED <<t0, request, csends>>
    /\ UNCHANGED <<program, config, call, now, skew, svars>>

\* client.recvfrom(1024) returns a shorter datagram
ClientRecvInvalid ==
    /\ program = "ntp_client"
    /\ cpc = "recv"
    /\ \E a \in ClientArrivals :
          /\ ~(a[1].len >= NTP_PACKET_SIZE)
          /\ response' = a
    /\ creads' = creads + 1
    /\ ClientReturn("invalid", None)
    /\ UNCHANGED <<t0, request, csends, system_time, local_time, offset>>
    /\ UNCHANGED <<program, config, call, now, skew, svars>>

\* ClientTimeout as it would be if the timeout left the function by an
\* exception no handler of the try statement catches and no finally follows
ClientTimeoutLeaks ==
    /\ program = "ntp_client"
    /\ cpc = "recv"
    /\ now >= t0 + TimeoutTicks
    /\ cpc' = "done"
    /\ outcome' = "timeout"
    /\ UNCHANGED <<csock, retval, t0, request, csends, creads, response,
                   system_time, local_time, offset>>
    /\ UNCHANGED <<program, config, call, now, skew, svars>>

\* client.recvfrom(1024) raises socket.timeout: nothing arrived in 5 seconds
ClientTimeout ==
    /\ program = "ntp_client"
    /\ cpc = "recv"
    /\ now >= t0 + TimeoutTicks
    /\ ClientReturn("timeout", None)
    /\ UNCHANGED <<t0, request, csends, creads, response, system_time,
                   local_time, offset>>
    /\ UNCHANGED <<program, config, call, now, skew, svars>>

\* client.recvfrom(1024) raises another exception: except Exception
ClientRecvFail ==
    /\ program = "ntp_client"
    /\ cpc = "recv"
    /\ ClientReturn("error", None)
    /\ UNCHANGED <<t0, request, csends, creads, response, system_time,
                   local_time, offset>>
    /\ UNCHANGED <<program, config, call, now, skew, svars>>

(***************************************************************************)
(* server_config.py: the time source a server may be configured with.      *)
(* A setting is <<>> (None) or <<value>>, a time or a number of seconds    *)
(* in fixed point.                                                         *)
(***************************************************************************)
\* Python's truth value of a setting: None and zero are false
Truthy(setting) == setting # None /\ setting[1] # 0

SEND_FIXED_TIME == config.fixed
SEND_DELTA_PLUS_TIME == config.plus
SEND_DELTA_MINUS_TIME == config.minus

\* get_current_unix_time_seconds(): time is what time.time() returns
get_current_unix_time_seconds_zero_is_set(time) ==
    IF SEND_FIXED_TIME # None THEN SEND_FIXED_TIME[1]
    ELSE IF SEND_DELTA_PLUS_TIME # None THEN time + SEND_DELTA_PLUS_TIME[1]
    ELSE IF SEND_DELTA_MINUS_TIME # None THEN time - SEND_DELTA_MINUS_TIME[1]
    ELSE time

get_current_unix_time_seconds(time) ==
    IF Truthy(SEND_FIXED_TIME) THEN SEND_FIXED_TIME[1]
    ELSE IF Truthy(SEND_DELTA_PLUS_TIME) THEN time + SEND_DELTA_PLUS_TIME[1]
    ELSE IF Truthy(SEND_DELTA_MINUS_TIME) THEN time - SEND_DELTA_MINUS_TIME[1]
    ELSE time

\* get_configuration_type(): <<the words before the colon, the second
\* tx_time is printed as>>
get_configuration_type(time) ==
    LET tx_time == get_current_unix_time_seconds(time) \div Scale
    IN  IF Truthy(SEND_FIXED_TIME) THEN <<"Fixed Set Time", tx_time>>
        ELSE IF Truthy(SEND_DELTA_PLUS_TIME) THEN <<"Future Time", tx_time>>
        ELSE IF Truthy(SEND_DELTA_MINUS_TIME) THEN <<"Past Time", tx_time>>
        ELSE <<"System Time", tx_time>>

Config(fixed, plus, minus) == [fixed |-> fixed, plus |-> plus, minus |-> minus]

\* the file as it stands: the three settings are None
DefaultConfig == Config(None, None, None)

\* the values an edited file is given: unset, zero, or a time / a delta
FixedSettings == {None, <<0>>, <<Float(3)>>}
PlusSettings == {None, <<0>>, <<Float(2)>>}
MinusSettings == {None, <<0>>, <<Float(1)>>}
AllConfigs ==
    {Config(f, p, m) : f \in FixedSettings, p \in PlusSettings, m \in MinusSettings}

\* the configurations a server is run under
ServerConfigs ==
    {DefaultConfig, Config(<<Float(3)>>, None, None), Config(None, <<Float(2)>>, None)}

\* a caller of server_config asks for the time
CallGetCurrentTime ==
    /\ program = "server_config"
    /\ call' = <<"get_current_unix_time_seconds", ServerTime,
                 get_current_unix_time_seconds(ServerTime), "">>
    /\ UNCHANGED <<program, config, now, skew, svars, cvars>>

\* a caller of server_config asks what is configured
CallGetConfigurationType ==
    /\ program = "server_config"
    /\ call' = <<"get_configuration_type", ServerTime,
                 get_configuration_type(ServerTime)[2],
                 get_configuration_type(ServerTime)[1]>>
    /\ UNCHANGED <<program, config, now, skew, svars, cvars>>

(***************************************************************************)
(* ntp_client.py's two conversions applied one after the other to a Unix   *)
(* time with a fraction.                                                   *)
(***************************************************************************)
CallRoundTrip ==
    /\ program = "conversions"
    /\ LET ntp == unix_to_ntp_time_seconds(ClientTime)
       IN  call' = <<"round_trip", ClientTime,
                     ntp_to_unix_time_seconds(Float(ntp)), "">>
    /\ UNCHANGED <<program, config, now, skew, svars, cvars>>

(***************************************************************************)
(* The system: the program has created its socket and done nothing else.   *)
(***************************************************************************)
Init ==
    /\ program \in {"ntp_server", "ntp_client", "server_config", "conversions"}
    /\ config \in (IF program = "server_config" THEN AllConfigs
                   ELSE IF program = "ntp_server" THEN ServerConfigs
                   ELSE {DefaultConfig})
    /\ call = None
    /\ now \in {s * TicksPerSec : s \in StartTimes}
    /\ skew \in {k * TicksPerSec : k \in SkewSecs}
    /\ spc = "bind"
    /\ ssock = "open"
    /\ sexit = "running"
    /\ sprinted = ""
    /\ cur = None
    /\ out = None
    /\ nsent = 0
    /\ stamps = None
    /\ fault = "none"
    /\ discarded = FALSE
    /\ cpc = "start"
    /\ csock = "open"
    /\ t0 = 0
    /\ request = None
    /\ csends = 0
    /\ creads = 0
    /\ response = None
    /\ system_time = 0
    /\ local_time = 0
    /\ offset = 0
    /\ outcome = "none"
    /\ retval = None

Next ==
    \/ Tick
    \/ ServerBindOk
    \/ ServerBindDenied
    \/ ServerBindError
    \/ ServerInterrupt
    \/ ServerRecv
    \/ ServerRecvFail
    \/ ServerDiscard
    \/ ServerRespond
    \/ ServerBuildFail
    \/ ServerSendFail
    \/ ClientPackFail
    \/ ClientSend
    \/ ClientSendFail
    \/ ClientRecvValid
    \/ ClientRecvInvalid
    \/ ClientTimeout
    \/ ClientRecvFail
    \/ CallGetCurrentTime
    \/ CallGetConfigurationType
    \/ CallRoundTrip

Spec == Init /\ [][Next]_vars

(***************************************************************************)
(* Reading a packet.                                                       *)
(***************************************************************************)
\* the handling of cur has ended and the loop is back at recvfrom
Handled == spc = "recv" /\ cur # None

\* cur is a request: at least 48 bytes
ValidRequest == cur # None /\ cur[1].len >= 48

\* C1: the origin timestamp of a response (seconds word and fraction word)
\* is the transmit timestamp of the request it answers
C1_OriginIsRequestTransmit ==
    out # None =>
        /\ At(out[1].fields, 9) = At(cur[1].fields, 13)
        /\ At(out[1].fields, 10) = At(cur[1].fields, 14)

\* the server is inside "while True"
InLoop == spc \in {"recv", "handle"}

\* the step is the KeyboardInterrupt handler's
InterruptStep == sexit' = "exit0" /\ sprinted' = "Shutting down NTP server"

\* C2: a datagram shorter than 48 bytes gets no response and leaves the
\* server in its receive loop with its socket open (unless the run is
\* interrupted), and whatever was discarded before, a response that is sent
\* goes to the sender of the request being handled and is the one
\* create_ntp_response builds from that request and the clock
C2_MalformedDiscarded ==
    [][ /\ (spc = "handle" /\ ~ValidRequest /\ ~InterruptStep) =>
              /\ out' = None /\ nsent' = 0
              /\ InLoop' /\ ssock' = "open" /\ sexit' = "running"
        /\ nsent' > nsent =>
              /\ ValidRequest /\ cur' = cur /\ nsent' = 1
              /\ out' = <<create_ntp_response(cur[1], stamps'[1], stamps'[2]), cur[2]>>
              /\ stamps'[1] = ServerTime /\ stamps'[2] = ServerTime'
      ]_vars

\* C2 witness: a valid request has been answered after a malformed datagram
\* was discarded
C2_Witness ==
    /\ discarded /\ Handled /\ ValidRequest
    /\ nsent = 1 /\ out # None /\ out[2] = cur[2]

\* C3: when a request of at least 48 bytes has been handled and sendto did
\* not fail, exactly one response has been sent for it, to the address it
\* came from, before the next datagram is read
C3_OneResponsePerRequest ==
    (Handled /\ ValidRequest /\ fault # "OSError") =>
        /\ nsent = 1
        /\ out # None /\ out[2] = cur[2]

\* C4: once bound, the receive loop is left only by the interrupt, and a
\* fault in handling one datagram puts the server back at recvfrom with
\* its socket open
C4_LoopLeftOnlyOnInterrupt ==
    [][ /\ (InLoop /\ ~InLoop') => InterruptStep
        /\ (InLoop /\ ~InterruptStep /\ (fault' # fault \/ sprinted' # sprinted)) =>
              /\ InLoop' /\ ssock' = "open" /\ sexit' = "running"
              /\ (fault' \in {"struct.error", "OSError"} /\ spc = "handle") => spc' = "recv"
      ]_vars

\* C4 witness: the server is back at recvfrom after a failure while
\* building the response
C4_Witness ==
    /\ spc = "recv" /\ ssock = "open" /\ sexit = "running"
    /\ ValidRequest /\ fault = "struct.error"

(***************************************************************************)
(* The exchange as the client sees it.                                     *)
(***************************************************************************)
\* a timestamp of the received response as Unix seconds (a float):
\* seconds - 2208988800 + fraction / 2^32, words i and i + 1 of the packet
ToUnix(i) ==
    Float(At(response[1].fields, i) - NTP_UNIX_OFFSET)
        + (At(response[1].fields, i + 1) * Scale) \div NTP_MAX_VALUE

\* T0: the client's send instant; T1, T2: the receive and transmit
\* timestamps of the response; T3: the client's receive instant
T0 == ClientTimeAt(t0)
T1 == ToUnix(11)
T2 == ToUnix(13)
T3 == local_time

\* C5: the offset of a successful exchange is ((T1 - T0) + (T2 - T3)) / 2
C5_OffsetFormula ==
    outcome = "result" => 2 * offset = (T1 - T0) + (T2 - T3)

\* C6: the result of a successful exchange carries the offset, the delay
\* (T3 - T0) - (T2 - T1), unclamped, the server time and the local time
C6_DelayInResult ==
    outcome = "result" =>
        retval = <<offset, (T3 - T0) - (T2 - T1), T2, local_time>>

\* C7: a transmit seconds word of 5 against a client clock whose NTP
\* seconds are 2^32 - 5 is an offset of magnitude 10 seconds
C7_ModularDifference ==
    ( /\ outcome = "result"
      /\ At(response[1].fields, 13) = 5
      /\ At(response[1].fields, 14) = 0
      /\ local_time + Float(NTP_UNIX_OFFSET) = Float(NTP_MAX_VALUE - 5) )
    => (offset = Float(10) \/ offset = -Float(10))

\* floor(time) + 2208988800, modulo 2^32
WrappedSeconds(time) == ((time \div Scale) + NTP_DELTA) % NTP_MAX_VALUE

\* C8: at every value of the clock, building a packet does not fail (on the
\* server: a valid request is answered unless sendto fails), and the
\* seconds words written are (floor(time) + 2208988800) mod 2^32 with
\* fraction words in [0, 2^32)
C8_SecondsWrapAtWordSize ==
    /\ fault # "struct.error"
    /\ outcome # "raised"
    /\ (Handled /\ ValidRequest /\ fault # "OSError") => out # None
    /\ out # None =>
          /\ At(out[1].fields, 11) = WrappedSeconds(stamps[1])
          /\ At(out[1].fields, 13) = WrappedSeconds(stamps[2])
          /\ At(out[1].fields, 12) \in 0..(NTP_MAX_VALUE - 1)
          /\ At(out[1].fields, 14) \in 0..(NTP_MAX_VALUE - 1)
    /\ request # None =>
          At(request.fields, 13) = WrappedSeconds(ClientTimeAt(t0))

\* the operating system's clock advances and a blocked recvfrom with a
\* timeout set returns or raises when the timeout has passed
FairSpec == Spec /\ WF_vars(Tick) /\ WF_vars(ClientTimeout)

\* C9: a get_ntp_time that waits for a response ends; when it ends by the
\* timeout, 5 seconds have passed since the request was sent, it has
\* returned None and its socket is closed
C9_TimeoutEnds ==
    /\ [](outcome = "timeout" =>
            /\ cpc = "done" /\ retval = None /\ csock = "closed"
            /\ response = None)
    /\ [][(outcome' = "timeout" /\ outcome # "timeout") =>
            now' >= t0 + TIMEOUT * TicksPerSec]_vars
    /\ (cpc = "recv") ~> (cpc = "done")

\* C9 witness: get_ntp_time has timed out
C9_Witness ==
    /\ outcome = "timeout" /\ cpc = "done" /\ request # None
    /\ csock = "closed" /\ now - t0 = TIMEOUT * TicksPerSec

\* C10: when get_ntp_time or run_ntp_server has been left, its socket is
\* closed
C10_SocketsReleased ==
    /\ cpc = "done" => csock = "closed"
    /\ spc = "stopped" => ssock = "closed"

(***************************************************************************)
(* One request, one read.                                                  *)
(***************************************************************************)
\* C11: one call of get_ntp_time calls sendto exactly once and afterwards
\* reads at most one datagram: it never sends again and never reads a
\* second one, and when the call has ended, however it ended, the one
\* request has been sent
C11_OneSendOneRead ==
    /\ csends <= 1
    /\ creads <= 1
    /\ creads = 1 => csends = 1
    /\ cpc \in {"recv", "done"} => csends = 1

(***************************************************************************)
(* The length check.                                                       *)
(***************************************************************************)
\* the first 48 bytes of a datagram of at least 48 bytes
Prefix(data) == Datagram(NTP_PACKET_SIZE, data.fields)

\* C12: a datagram is decoded exactly when it has at least 48 bytes.  The
\* client returns None for every shorter response and a result for every
\* other, the server discards every shorter request; the client's result
\* and the server's response (or its struct.error) are those of the
\* datagram's first 48 bytes alone
C12_LengthDecides ==
    /\ (response # None /\ response[1].len < NTP_PACKET_SIZE) =>
            (outcome = "invalid" /\ retval = None)
    /\ (response # None /\ response[1].len >= NTP_PACKET_SIZE) =>
            /\ outcome = "result"
            /\ CanUnpack(response[1])
            /\ retval = <<ntp_to_unix_time_seconds(
                            ResponseNtpTime(Unpack(Prefix(response[1]))))>>
    /\ (Handled /\ ~ValidRequest) =>
            (out = None /\ stamps = None /\ fault = "none")
    /\ (Handled /\ ValidRequest) =>
            /\ stamps # None
            /\ LET r == create_ntp_response(Prefix(cur[1]), stamps[1], stamps[2])
               IN  /\ fault = "struct.error" <=> r = StructError
                   /\ out # None => out[1] = r

\* C12 witness: a request with trailing bytes has been answered, and was
\* not the first datagram handled
C12_Witness ==
    /\ Handled /\ cur[1].len > NTP_PACKET_SIZE
    /\ out # None /\ nsent = 1 /\ fault = "none"
    /\ discarded

(***************************************************************************)
(* Startup failures.                                                       *)
(***************************************************************************)
\* the status run_ntp_server exits with when bind raises PermissionError
PERMISSION_EXIT == "exit1"

\* C13: when bind is refused for lack of permission the server handles no
\* datagram and exits with a non-zero status, and no other way of ending
\* (another startup error, an interrupt) exits with that status
C13_PermissionStatusDistinct ==
    spc = "stopped" =>
        IF sprinted = "Error: Permission denied"
        THEN cur = None /\ out = None /\ sexit = PERMISSION_EXIT /\ sexit # "exit0"
        ELSE sexit # PERMISSION_EXIT

(***************************************************************************)
(* The server's time source.                                               *)
(***************************************************************************)
\* C14: the response carries the configured time: its receive and transmit
\* timestamps encode what get_current_unix_time_seconds gives at the two
\* clock reads (the fixed time, now plus or minus the delta, or now), and
\* the other fields do not depend on the configuration
C14_ResponseCarriesConfiguredTime ==
    (program = "ntp_server" /\ out # None) =>
        LET f == out[1].fields
            recv == get_current_unix_time_seconds(stamps[1])
            transmit == get_current_unix_time_seconds(stamps[2])
        IN  /\ At(f, 11) = system_to_ntp_time(recv)
            /\ At(f, 12) = FracWord(recv)
            /\ At(f, 13) = system_to_ntp_time(transmit)
            /\ At(f, 14) = FracWord(transmit)
            /\ out[1].len = NTP_PACKET_SIZE
            /\ <<At(f, 0), At(f, 1), At(f, 2), At(f, 3), At(f, 4), At(f, 5), At(f, 6)>>
                  = <<SERVER_LI_VN_MODE, 2, 6, -20, 0, 0, REF_ID>>

(***************************************************************************)
(* The client's conversions, there and back.                               *)
(***************************************************************************)
\* C15: for a Unix time t from 1970 up to the rollover of 2036, converting
\* t to NTP time and back gives t within 2^-32 second (one unit of the
\* fixed point)
C15_RoundTripExact ==
    (/\ call # None
     /\ call[1] = "round_trip"
     /\ 0 <= call[2]
     /\ call[2] < Float(Rollover)) =>
        /\ Float(call[3]) - call[2] <= 1
        /\ call[2] - Float(call[3]) <= 1

(***************************************************************************)
(* The response's header.                                                  *)
(***************************************************************************)
\* C16: every response has leap indicator 0, version 4, mode 4, stratum 2,
\* poll 6, precision -20 and the reference identifier "GPS", whatever the
\* request's first byte and other fields are
C16_StaticHeader ==
    out # None =>
        LET f == out[1].fields
        IN  /\ At(f, 0) \div 64 = 0
            /\ (At(f, 0) \div 8) % 8 = 4
            /\ At(f, 0) % 8 = 4
            /\ At(f, 1) = 2
            /\ At(f, 2) = 6
            /\ At(f, 3) = -20
            /\ At(f, 6) = REF_ID

\* C16 witness: a request of leap indicator 3, version 3, mode 7 and other
\* stratum, poll, precision and reference identifier has been answered
C16_Witness ==
    /\ Handled /\ out # None /\ nsent = 1
    /\ At(cur[1].fields, 0) = 3 * 64 + 3 * 8 + 7
    /\ At(cur[1].fields, 1) # 2
    /\ At(cur[1].fields, 6) # REF_ID

TransmitSeconds(f) ==
    LET d == At(f, 13) - NTP_UNIX_OFFSET
    IN  IF d < 0 /\ At(f, 14) > 0 THEN d + 1 ELSE d

\* C18: every datagram of at least 48 bytes gives a result, and the result
\* is a function of its two transmit timestamp words, the offset one of
\* these and the client's clock: mode, leap indicator, version, stratum,
\* origin and receive timestamps and the sender do not enter
C18_ResultFromTransmitOnly ==
    /\ (response # None /\ response[1].len >= NTP_PACKET_SIZE) => outcome = "result"
    /\ outcome = "result" =>
            /\ retval = <<TransmitSeconds(response[1].fields)>>
            /\ system_time = TransmitSeconds(response[1].fields)
            /\ offset = TransmitSeconds(response[1].fields) * Scale - local_time

\* C18 witness: a datagram of mode 3 from another host, whose origin is not
\* the request's transmit timestamp and whose receive timestamp is not its
\* transmit timestamp, has given a result
C18_Witness ==
    /\ outcome = "result" /\ cpc = "done"
    /\ response[2] = OTHER_ADDR
    /\ At(response[1].fields, 0) % 8 = 3
    /\ At(response[1].fields, 9) # At(request.fields, 13)
    /\ At(response[1].fields, 11) # At(response[1].fields, 13)

(***************************************************************************)
(* server_config.get_current_unix_time_seconds.                            *)
(***************************************************************************)
\* a setting that is set and not zero
SetNonZero(setting) == setting \notin {None, <<0>>}

\* C19: the time is SEND_FIXED_TIME when that is set and not zero; else
\* now + SEND_DELTA_PLUS_TIME when that is set and not zero; else
\* now - SEND_DELTA_MINUS_TIME when that is set and not zero; else now.
\* get_configuration_type names the setting in force by the same order
C19_ConfigPrecedence ==
    /\ (call # None /\ call[1] = "get_current_unix_time_seconds") =>
          call[3] =
            CASE SetNonZero(config.fixed) -> config.fixed[1]
              [] ~SetNonZero(config.fixed) /\ SetNonZero(config.plus) ->
                    call[2] + config.plus[1]
              [] /\ ~SetNonZero(config.fixed) /\ ~SetNonZero(config.plus)
                 /\ SetNonZero(config.minus) -> call[2] - config.minus[1]
              [] OTHER -> call[2]
    /\ (call # None /\ call[1] = "get_configuration_type") =>
          call[4] =
            CASE SetNonZero(config.fixed) -> "Fixed Set Time"
              [] ~SetNonZero(config.fixed) /\ SetNonZero(config.plus) -> "Future Time"
              [] /\ ~SetNonZero(config.fixed) /\ ~SetNonZero(config.plus)
                 /\ SetNonZero(config.minus) -> "Past Time"
              [] OTHER -> "System Time"

\* C19 witness: a fixed time of zero is passed over for the plus delta,
\* which hides the minus delta
C19_Witness ==
    /\ call # None /\ call[1] = "get_current_unix_time_seconds"
    /\ config.fixed = <<0>> /\ SetNonZero(config.plus) /\ SetNonZero(config.minus)
    /\ call[3] = call[2] + config.plus[1]

====
